---- MODULE Spec2Model ----
(***************************************************************************)
(* The endogenous grid method (EGM) notebook: OptimalGrowthModel, the EGM  *)
(* Coleman-Reffett operator K built by egm_operator_factory, the           *)
(* exogenous-grid operator built by time_operator_factory, and the         *)
(* iteration loops that drive them.                                        *)
(*                                                                         *)
(* Floats are modelled by exact decimal numbers <<n, d, e>> = (n/d)*10^e,  *)
(* in lowest terms with neither n nor d a multiple of 5, so that equal     *)
(* values have equal representations.  <<0, 0, 0>> stands for a non-finite *)
(* float (nan, inf).                                                       *)
(***************************************************************************)
EXTENDS Integers, Sequences, FiniteSets, TLC

(***************************************************************************)
(* Exact arithmetic                                                        *)
(***************************************************************************)
NaN == <<0, 0, 0>>
Zero == <<0, 1, 0>>
One == <<1, 1, 0>>

IsNaN(x) == x[2] = 0

Abs(n) == IF n < 0 THEN -n ELSE n

RECURSIVE GCD(_, _)
GCD(a, b) == IF b = 0 THEN a ELSE GCD(b, a % b)

RECURSIVE Pow10(_)
Pow10(k) == IF k = 0 THEN 1 ELSE 10 * Pow10(k - 1)

RECURSIVE IPow(_, _)
IPow(b, k) == IF k = 0 THEN 1 ELSE b * IPow(b, k - 1)

\* n/d * 10^e with gcd(n, d) = 1 and d > 0, brought to the canonical form:
\* every factor 5 of n and of d is moved into the power of ten.
RECURSIVE Canon(_, _, _)
Canon(n, d, e) ==
    IF n = 0 THEN Zero
    ELSE IF n % 5 = 0
    THEN LET m == n \div 5
         IN  IF m % 2 = 0 THEN Canon(m \div 2, d, e + 1)
             ELSE Canon(m, 2 * d, e + 1)
    ELSE IF d % 5 = 0
    THEN LET c == d \div 5
         IN  IF c % 2 = 0 THEN Canon(n, c \div 2, e - 1)
             ELSE Canon(2 * n, c, e - 1)
    ELSE <<n, d, e>>

\* n/d * 10^e for any n and any d > 0.
Num(n, d, e) ==
    LET g == GCD(Abs(n), d)
    IN  IF n = 0 THEN Zero ELSE Canon(n \div g, d \div g, e)

Whole(n) == Num(n, 1, 0)

Sign(x) == IF x[1] < 0 THEN -1 ELSE IF x[1] > 0 THEN 1 ELSE 0

Neg(x) == IF IsNaN(x) THEN NaN ELSE <<-x[1], x[2], x[3]>>

Mul(x, y) ==
    IF IsNaN(x) \/ IsNaN(y) THEN NaN
    ELSE IF x[1] = 0 \/ y[1] = 0 THEN Zero
    ELSE LET g1 == GCD(Abs(x[1]), y[2])
             g2 == GCD(Abs(y[1]), x[2])
         IN  Num((x[1] \div g1) * (y[1] \div g2),
                 (x[2] \div g2) * (y[2] \div g1),
                 x[3] + y[3])

Add(x, y) ==
    IF IsNaN(x) \/ IsNaN(y) THEN NaN
    ELSE IF x[1] = 0 THEN y
    ELSE IF y[1] = 0 THEN x
    ELSE LET e  == IF x[3] < y[3] THEN x[3] ELSE y[3]
             nx == x[1] * Pow10(x[3] - e)
             ny == y[1] * Pow10(y[3] - e)
             g  == GCD(x[2], y[2])
         IN  Num(nx * (y[2] \div g) + ny * (x[2] \div g),
                 (x[2] \div g) * y[2],
                 e)

Sub(x, y) == Add(x, Neg(y))

\* 1/x; a division by zero gives a non-finite float.
Recip(x) ==
    IF IsNaN(x) \/ x[1] = 0 THEN NaN
    ELSE IF x[1] < 0 THEN Num(-x[2], -x[1], -x[3])
    ELSE Num(x[2], x[1], -x[3])

Div(x, y) == Mul(x, Recip(y))

\* Comparisons; any comparison with a non-finite float is false.
Lt(x, y) == ~IsNaN(x) /\ ~IsNaN(y) /\ Sign(Sub(x, y)) < 0
Le(x, y) == ~IsNaN(x) /\ ~IsNaN(y) /\ Sign(Sub(x, y)) <= 0

AbsNum(x) == IF Sign(x) < 0 THEN Neg(x) ELSE x

\* The r in 0..MaxRoot with r^q = n, or -1 when n is no exact q-th power.
MaxRoot == 40
IRoot(n, q) ==
    IF q = 1 THEN n
    ELSE IF \E r \in 0..MaxRoot : IPow(r, q) = n
    THEN CHOOSE r \in 0..MaxRoot : IPow(r, q) = n
    ELSE -1

\* Whether x ** (p/q) is computed exactly: always for a whole exponent
\* (q = 1), else for a positive x with an exact q-th root.
PowExact(x, q) ==
    /\ ~IsNaN(x)
    /\ \/ q = 1
       \/ /\ x[1] > 0
          /\ x[3] % q = 0
          /\ IRoot(x[1], q) >= 0
          /\ IRoot(x[2], q) >= 0

\* x ** (p/q), q >= 1; p may be negative (0 ** negative is non-finite).
Pow(x, p, q) ==
    IF IsNaN(x) THEN NaN
    ELSE IF p = 0 THEN One
    ELSE IF x[1] = 0 THEN (IF p > 0 THEN Zero ELSE NaN)
    ELSE LET rn == IRoot(x[1], q)
             rd == IRoot(x[2], q)
             re == x[3] \div q
         IN  IF p > 0
             THEN Num(IPow(rn, p), IPow(rd, p), re * p)
             ELSE IF rn < 0
             THEN Num(-IPow(rd, -p), IPow(-rn, -p), re * p)
             ELSE Num(IPow(rd, -p), IPow(rn, -p), re * p)

\* np.mean of an array: nan for an empty one.
RECURSIVE SumTo(_, _)
SumTo(a, n) == IF n = 0 THEN Zero ELSE Add(SumTo(a, n - 1), a[n])

mean(a) == IF Len(a) = 0 THEN NaN ELSE Div(SumTo(a, Len(a)), Whole(Len(a)))

(***************************************************************************)
(* interp(x, y, u) of the interpolation package: piecewise linear through  *)
(* the points (x[i], y[i]); the segment is found by a binary search        *)
(* (numpy's searchsorted, side left) clamped to the first and last         *)
(* segment, so that a point outside [x[0], x[-1]] is extrapolated along    *)
(* the nearest edge segment.  Indices are 1-based here.                    *)
(***************************************************************************)
RECURSIVE BinSearch(_, _, _, _)
BinSearch(a, v, lo, hi) ==
    IF lo >= hi THEN lo
    ELSE LET mid == lo + ((hi - lo) \div 2)
         IN  IF Lt(a[mid + 1], v)
             THEN BinSearch(a, v, mid + 1, hi)
             ELSE BinSearch(a, v, lo, mid)

\* The number of the slot v would be inserted at, 0 .. Len(a).
searchsorted(a, v) == BinSearch(a, v, 0, Len(a))

Clamp(i, lo, hi) == IF i < lo THEN lo ELSE IF i > hi THEN hi ELSE i

interp(xs, ys, u) ==
    IF Len(xs) < 2 THEN NaN
    ELSE LET i   == Clamp(searchsorted(xs, u) - 1, 0, Len(xs) - 2) + 1
             lam == Div(Sub(u, xs[i]), Sub(xs[i + 1], xs[i]))
         IN  Add(Mul(Sub(One, lam), ys[i]), Mul(lam, ys[i + 1]))

(***************************************************************************)
(* Bounds of the model and the inputs it draws                             *)
(***************************************************************************)
MaxGridSize == 3
MaxShockSize == 2
MaxCalls == 2
\* The largest numerator or denominator of a sample of a policy K is applied
\* to (beyond it the products leave the range of 32-bit integers).
MaxMantissa == 200

\* Discount factors: 0.5, and 1.5 (outside (0, 1)).
Betas == {Num(1, 2, 0), Num(3, 2, 0)}
\* What a model is built with, as <<A, alpha, u, grid_max, generic>>: the
\* production function is A * k ** alpha with alpha = p/q (the notebook's
\* k ** 0.4, the linear k, and the convex 1e5 * k ** 2); the utility "log"
\* has u'(c) = 1/c, which is its own inverse; "quad" is a quadratic utility
\* with u'(c) = Bliss - c, whose inverse is m |-> Bliss - m.  grid_max is
\* 32e-5 (a fifth power, so that k ** 0.4 is exact), 3e-5, or 0 (a grid
\* that runs from 1e-5 down to 0).  generic tells whether the caller also
\* starts from the policy Generic.
Scenarios ==
    {<<One, <<2, 5>>, "log", Num(32, 1, -5), FALSE>>,
     <<One, <<1, 1>>, "log", Num(3, 1, -5), TRUE>>,
     <<Num(1, 1, 5), <<2, 1>>, "log", Num(3, 1, -5), TRUE>>,
     <<One, <<1, 1>>, "quad", Num(3, 1, -5), TRUE>>,
     <<One, <<1, 1>>, "quad", Zero, FALSE>>}
Bliss == Num(1, 1, -4)
\* Values a lognormal draw exp(mu + s * Z) may take.
ShockVals == {One, Whole(2)}

\* The samples of n draws: no two draws of a continuous distribution are equal
SeqsOf(S, n) == {s \in [1..n -> S] : \A i, j \in 1..n : s[i] = s[j] => i = j}

(***************************************************************************)
(* The model's callables                                                   *)
(***************************************************************************)
AlphaNum(alpha) == Num(alpha[1], alpha[2], 0)

\* f(k) = A * k ** alpha
f(m, k) == Mul(m.A, Pow(k, m.alpha[1], m.alpha[2]))

\* The derivative of k^alpha without its factor alpha.
f_primeNoAlpha(m, k) ==
    Mul(m.A, Pow(k, m.alpha[1] - m.alpha[2], m.alpha[2]))

\* f_prime(k) = A * alpha * k ** (alpha - 1)
f_prime(m, k) ==
    Mul(Mul(m.A, AlphaNum(m.alpha)),
        Pow(k, m.alpha[1] - m.alpha[2], m.alpha[2]))

u_prime(m, c) == IF m.u = "log" THEN Recip(c) ELSE Sub(Bliss, c)

u_prime_inv(m, v) == IF m.u = "log" THEN Recip(v) ELSE Sub(Bliss, v)

\* np.linspace(start, stop, num), num >= 1
linspace(start, stop, num) ==
    IF num = 1 THEN <<start>>
    ELSE LET step == Div(Sub(stop, start), Whole(num - 1))
         IN  [i \in 1..num |-> IF i = num THEN stop
                               ELSE Add(start, Mul(Whole(i - 1), step))]

GridMin == Num(1, 1, -5)

(***************************************************************************)
(* Policies.  A closed-form policy x |-> b + a * x, or the closure         *)
(* lambda x: interp(y, c, x) over two arrays of the heap.                  *)
(***************************************************************************)
Closed(b, a) == [kind |-> "closed", b |-> b, a |-> a]
Interp(y, c) == [kind |-> "interp", y |-> y, c |-> c]
Vector(v) == [kind |-> "vector", v |-> v]

\* sigma(x) for a callable policy whose arrays live in heap h
Eval(h, sigma, u) ==
    IF sigma.kind = "closed" THEN Add(sigma.b, Mul(sigma.a, u))
    ELSE interp(h[sigma.y], h[sigma.c], u)

\* lambda x: x
Identity == Closed(Zero, One)

\* c_star(y) = (1 - alpha * beta) * y
c_star(m) == Closed(Zero, Sub(One, Mul(AlphaNum(m.alpha), m.beta)))

\* Another closed-form policy a caller may start from.
Generic == Closed(Num(4, 1, -5), Num(5, 1, -1))

\* What a policy is made of: its samples, whatever arrays hold them.
Contents(h, sigma) ==
    IF sigma.kind = "closed" THEN sigma
    ELSE IF sigma.kind = "interp"
    THEN [kind |-> "interp", y |-> h[sigma.y], c |-> h[sigma.c]]
    ELSE [kind |-> "vector", v |-> h[sigma.v]]

VARIABLES og, heap, pols, applied, ev, brentqCalls, call,
          kpc, ksigma, kc, ki, ky,
          tpc, tsigma, tnew, twork, twrites,
          loop
kvars == <<kpc, ksigma, kc, ki, ky>>
tvars == <<tpc, tsigma, tnew, twork, twrites>>
vars == <<og, heap, pols, applied, ev, brentqCalls, call, kvars, tvars, loop>>

NoModel == [built |-> FALSE]
NoEval == [done |-> FALSE]
NoLoop == [pc |-> "off", op |-> "egm", n |-> 0, i |-> 0, sigma |-> 0]

Init ==
    /\ og = NoModel
    /\ heap = <<>>
    /\ pols = <<>>
    /\ applied = <<>>
    /\ ev = NoEval
    /\ brentqCalls = 0
    /\ call = [who |-> "cell", roots |-> 0]
    /\ kpc = "idle"
    /\ ksigma = Identity
    /\ kc = 0
    /\ ki = 0
    /\ ky = 0
    /\ tpc = "idle"
    /\ tsigma = 0
    /\ tnew = 0
    /\ twork = <<>>
    /\ twrites = <<>>
    /\ loop = NoLoop

(***************************************************************************)
(* OptimalGrowthModel.__init__: stores the parameters, sets up the grid    *)
(* and draws the shocks.  No parameter is checked.  The policies a caller  *)
(* starts from exist with the model: lambda x: x, c_star and, for the      *)
(* time operator, the grid itself (sigma = grid).                          *)
(***************************************************************************)
OptimalGrowthModel(A, alpha, u, beta, grid_max, grid_size, draw, generic) ==
    LET g == linspace(GridMin, grid_max, grid_size)
    IN  /\ ~og.built
        /\ \A i \in 1..grid_size : PowExact(g[i], alpha[2])
        /\ og' = [built |-> TRUE, A |-> A, alpha |-> alpha, u |-> u,
                  beta |-> beta,
                  grid_max |-> grid_max, grid_size |-> grid_size,
                  shock_size |-> Len(draw),
                  grid |-> 1, shocks |-> 2]
        /\ heap' = <<g, draw>>
        /\ pols' = <<Identity, c_star(og'), Vector(1)>>
                    \o (IF generic THEN <<Generic>> ELSE <<>>)
        /\ UNCHANGED <<applied, ev, brentqCalls, call, kvars, tvars, loop>>

Construct ==
    \E beta \in Betas, sc \in Scenarios,
       grid_size \in 1..MaxGridSize, shock_size \in 0..MaxShockSize :
        \E draw \in SeqsOf(ShockVals, shock_size) :
            OptimalGrowthModel(sc[1], sc[2], sc[3], beta,
                               sc[4], grid_size, draw, sc[5])

grid == heap[og.grid]
shocks == heap[og.shocks]

\* No operator application is under way.
Idle == kpc = "idle" /\ tpc = "idle"

Garbage == {Zero, One}

Small(v) == Abs(v[1]) <= MaxMantissa /\ v[2] <= MaxMantissa

\* The samples of the policy stay within the mantissas the arithmetic keeps
\* exact.
Fits(h, sigma) ==
    IF sigma.kind = "closed" THEN TRUE
    ELSE IF sigma.kind = "interp"
    THEN \A i \in 1..Len(h[sigma.y]) :
            Small(h[sigma.y][i]) /\ Small(h[sigma.c][i])
    ELSE \A i \in 1..Len(h[sigma.v]) : Small(h[sigma.v][i])

\* The loop's current policy becomes the one just returned: sigma = K(sigma)
Assign(who, p) ==
    IF who = "loop" THEN [loop EXCEPT !.sigma = p, !.i = @ + 1] ELSE loop

\* An exception leaves the loop.
Abort(who) ==
    IF who = "loop" THEN [loop EXCEPT !.pc = "raised"] ELSE loop

(***************************************************************************)
(* egm_operator_factory(og).K                                              *)
(***************************************************************************)
\* vals = u_prime(sigma(f(k) * shocks)) * f_prime(k) * shocks
vals(h, sigma, k) ==
    [j \in 1..Len(h[og.shocks]) |->
        Mul(Mul(u_prime(og, Eval(h, sigma, Mul(f(og, k), h[og.shocks][j]))),
                f_prime(og, k)),
            h[og.shocks][j])]

\* The discount factor left out of the Euler equation.
ConsumptionUndiscounted(h, sigma, k) ==
    u_prime_inv(og, mean(vals(h, sigma, k)))

\* c[i] = u_prime_inv(beta * np.mean(vals))
Consumption(h, sigma, k) ==
    u_prime_inv(og, Mul(og.beta, mean(vals(h, sigma, k))))

\* Consumption taken off the capital grid instead of added to it.
EndogenousGridMinus(g, c) == [i \in 1..Len(g) |-> Sub(g[i], c[i])]

\* The exogenous grid handed on as the endogenous one.
EndogenousGridOnly(g, c) == [i \in 1..Len(g) |-> g[i]]

\* y = grid + c
EndogenousGrid(g, c) == [i \in 1..Len(g) |-> Add(g[i], c[i])]

\* K drawing a fresh shock sample on every call.
KEnterRedraw(p, who) ==
    /\ og.built
    /\ Idle
    /\ pols[p].kind # "vector"
    /\ Fits(heap, pols[p])
    /\ \E g \in Garbage, draw \in SeqsOf(ShockVals, Len(shocks)) :
        heap' = Append([heap EXCEPT ![og.shocks] = draw],
                       [i \in 1..Len(grid) |-> g])
    /\ kc' = Len(heap) + 1
    /\ ksigma' = pols[p]
    /\ ki' = 1
    /\ call' = [who |-> who, roots |-> brentqCalls]
    /\ kpc' = "loop"
    /\ ev' = NoEval
    /\ UNCHANGED <<og, pols, applied, brentqCalls, ky, tvars, loop>>

\* K(sigma) is entered with policy number p: c = np.empty_like(grid)
KEnter(p, who) ==
    /\ og.built
    /\ Idle
    /\ pols[p].kind # "vector"
    /\ Fits(heap, pols[p])
    /\ \E g \in Garbage :
        heap' = Append(heap, [i \in 1..Len(grid) |-> g])
    /\ kc' = Len(heap) + 1
    /\ ksigma' = pols[p]
    /\ ki' = 1
    /\ call' = [who |-> who, roots |-> brentqCalls]
    /\ kpc' = "loop"
    /\ ev' = NoEval
    /\ UNCHANGED <<og, pols, applied, brentqCalls, ky, tvars, loop>>

\* for i, k in enumerate(grid): c[i] = u_prime_inv(beta * np.mean(vals))
KLoop ==
    /\ kpc = "loop"
    /\ ki <= Len(grid)
    /\ heap' = [heap EXCEPT ![kc][ki] = Consumption(heap, ksigma, grid[ki])]
    /\ ki' = ki + 1
    /\ UNCHANGED <<og, pols, applied, ev, brentqCalls, call,
                   kpc, ksigma, kc, ky, tvars, loop>>

\* The endogenous grid written over the model's grid: grid += c
KGridInPlace ==
    /\ kpc = "loop"
    /\ ki > Len(grid)
    /\ heap' = [heap EXCEPT ![og.grid] = EndogenousGrid(grid, heap[kc])]
    /\ ky' = og.grid
    /\ kpc' = "grid"
    /\ UNCHANGED <<og, pols, applied, ev, brentqCalls, call,
                   ksigma, kc, ki, tvars, loop>>

\* y = grid + c
KGrid ==
    /\ kpc = "loop"
    /\ ki > Len(grid)
    /\ heap' = Append(heap, EndogenousGrid(grid, heap[kc]))
    /\ ky' = Len(heap) + 1
    /\ kpc' = "grid"
    /\ UNCHANGED <<og, pols, applied, ev, brentqCalls, call,
                   ksigma, kc, ki, tvars, loop>>

\* The new policy interpolated over the exogenous grid.
sigma_newOnGrid == Interp(og.grid, kc)

\* sigma_new = lambda x: interp(y, c, x)
sigma_new == Interp(ky, kc)

\* return sigma_new
KReturn ==
    /\ kpc = "grid"
    /\ pols' = Append(pols, sigma_new)
    /\ applied' = Append(applied,
                         [op |-> "egm",
                          in |-> Contents(heap, ksigma),
                          out |-> Contents(heap, sigma_new),
                          roots |-> brentqCalls - call.roots])
    /\ kpc' = "idle"
    /\ loop' = Assign(call.who, Len(pols) + 1)
    /\ UNCHANGED <<og, heap, ev, brentqCalls, call, ksigma, kc, ki, ky,
                   tvars>>

(***************************************************************************)
(* time_operator_factory(og): objective and the parallel K                 *)
(***************************************************************************)
\* sigma_func = lambda x: interp(grid, sigma, x)
sigma_func(h, sigma, x) == interp(h[og.grid], sigma, x)

\* vals = u_prime(sigma_func(f(y - c) * shocks)) * f_prime(y - c) * shocks
\* return u_prime(c) - beta * np.mean(vals)
objective(h, c, sigma, y) ==
    LET k == Sub(y, c)
        v == [j \in 1..Len(h[og.shocks]) |->
                Mul(Mul(u_prime(og, sigma_func(h, sigma,
                                               Mul(f(og, k), h[og.shocks][j]))),
                        f_prime(og, k)),
                    h[og.shocks][j])]
    IN  Sub(u_prime(og, c), Mul(og.beta, mean(v)))

\* The ends of the bracket are 1e-10 and y - 1e-10
BracketEnd == Num(1, 1, -10)

\* The points p/q of the bracket at which the root-finder looks, in lowest
\* terms
MeshDen == 7
Fractions ==
    {m \in (1..MeshDen) \X (2..MeshDen) : m[1] < m[2] /\ GCD(m[1], m[2]) = 1}
Before(m1, m2) == m1[1] * m2[2] <= m2[1] * m1[2]
RECURSIVE Ascending(_)
Ascending(S) ==
    IF S = {} THEN <<>>
    ELSE LET m == CHOOSE x \in S : \A x2 \in S : Before(x, x2)
         IN  <<m>> \o Ascending(S \ {m})
Mesh == Ascending(Fractions)

\* The n-th point of the mesh of the bracket that ends at y
MeshPoint(y, n) == Mul(y, Num(Mesh[n][1], Mesh[n][2], 0))

\* Bisection between the mesh points lo and hi (0 and Len(Mesh) + 1 are the
\* ends of the bracket): the objective has the sign s at lo and not at hi
RECURSIVE Bisect(_, _, _, _, _, _)
BisectAt(h, sigma, y, s, lo, hi, mid, smid) ==
    IF smid = 0 THEN mid
    ELSE IF smid = s THEN Bisect(h, sigma, y, s, mid, hi)
    ELSE Bisect(h, sigma, y, s, lo, mid)
Bisect(h, sigma, y, s, lo, hi) ==
    IF hi - lo <= 1 THEN hi
    ELSE BisectAt(h, sigma, y, s, lo, hi, (lo + hi) \div 2,
                  Sign(objective(h, MeshPoint(y, (lo + hi) \div 2), sigma, y)))

\* What the root-finder does with the values fa and fb of the objective at
\* the ends of the bracket
Bracketed(h, sigma, y, fa, fb) ==
    IF IsNaN(fa) \/ IsNaN(fb) THEN [raised |-> FALSE, x |-> NaN]
    ELSE IF Sign(fa) * Sign(fb) > 0 THEN [raised |-> TRUE, x |-> NaN]
    ELSE IF Sign(fa) = 0 THEN [raised |-> FALSE, x |-> BracketEnd]
    ELSE IF Sign(fb) = 0 THEN [raised |-> FALSE, x |-> Sub(y, BracketEnd)]
    ELSE LET n == Bisect(h, sigma, y, Sign(fa), 0, Len(Mesh) + 1)
         IN  [raised |-> FALSE,
              x |-> IF n > Len(Mesh) THEN Sub(y, BracketEnd) ELSE MeshPoint(y, n)]

\* brentq(objective, 1e-10, y - 1e-10, args=(sigma, y)): fails when the
\* objective has one sign at both ends of the bracket, else closes in on a
\* change of sign, to the resolution of the mesh.
brentq(h, sigma, y) ==
    Bracketed(h, sigma, y,
              objective(h, BracketEnd, sigma, y),
              objective(h, Sub(y, BracketEnd), sigma, y))

\* The time operator is explored for linear production, where the objective
\* at the ends of the bracket stays within the integers.
Linear == og.alpha = <<1, 1>> /\ og.A = One

\* K(sigma) is entered with the vector number p: sigma_new = np.empty_like(sigma)
TEnter(p, who) ==
    /\ og.built
    /\ Idle
    /\ pols[p].kind = "vector"
    /\ Linear
    /\ Fits(heap, pols[p])
    /\ \E g \in Garbage :
        heap' = Append(heap, [i \in 1..Len(heap[pols[p].v]) |-> g])
    /\ tnew' = Len(heap) + 1
    /\ tsigma' = pols[p].v
    /\ twork' = [i \in 1..Len(grid) |-> "todo"]
    /\ twrites' = [i \in 1..Len(grid) |-> 0]
    /\ call' = [who |-> who, roots |-> brentqCalls]
    /\ tpc' = "prange"
    /\ ev' = NoEval
    /\ UNCHANGED <<og, pols, applied, brentqCalls, kvars, loop>>

\* Every iteration stores into the first slot.
SlotFirst(i) == 1

\* The slot iteration i stores into: sigma_new[i]
Slot(i) == i

\* Iteration i of the prange, on whichever thread runs it:
\* y = grid[i]; c_star = brentq(...)[0]; sigma_new[i] = c_star
TIter(i) ==
    /\ tpc = "prange"
    /\ twork[i] = "todo"
    /\ LET r == brentq(heap, heap[tsigma], grid[i])
       IN  IF r.raised
           THEN /\ twork' = [twork EXCEPT ![i] = "raised"]
                /\ UNCHANGED <<heap, twrites>>
           ELSE /\ twork' = [twork EXCEPT ![i] = "stored"]
                /\ heap' = [heap EXCEPT ![tnew][Slot(i)] = r.x]
                /\ twrites' = [twrites EXCEPT ![Slot(i)] = @ + 1]
    /\ brentqCalls' = brentqCalls + 1
    /\ UNCHANGED <<og, pols, applied, ev, call, kvars, tpc, tsigma, tnew,
                   loop>>

\* return sigma_new, once every iteration of the prange is over
TReturn ==
    /\ tpc = "prange"
    /\ \A i \in 1..Len(twork) : twork[i] = "stored"
    /\ pols' = Append(pols, Vector(tnew))
    /\ applied' = Append(applied,
                         [op |-> "time",
                          in |-> Contents(heap, Vector(tsigma)),
                          out |-> Contents(heap, Vector(tnew)),
                          roots |-> brentqCalls - call.roots,
                          writes |-> twrites])
    /\ tpc' = "idle"
    /\ loop' = Assign(call.who, Len(pols) + 1)
    /\ UNCHANGED <<og, heap, ev, brentqCalls, call, kvars,
                   tsigma, tnew, twork, twrites>>

\* The root-finder's error leaves K: nothing is returned
TRaise ==
    /\ tpc = "prange"
    /\ \E i \in 1..Len(twork) : twork[i] = "raised"
    /\ applied' = Append(applied,
                         [op |-> "time",
                          in |-> Contents(heap, Vector(tsigma)),
                          out |-> [kind |-> "raised"],
                          roots |-> brentqCalls - call.roots,
                          writes |-> twrites])
    /\ tpc' = "idle"
    /\ loop' = Abort(call.who)
    /\ UNCHANGED <<og, heap, pols, ev, brentqCalls, call, kvars,
                   tsigma, tnew, twork, twrites>>

(***************************************************************************)
(* The cells of the notebook that apply an operator once, K(c_star), and   *)
(* those that iterate it: for i in range(n): sigma = K(sigma)              *)
(***************************************************************************)
CellK(p) ==
    /\ loop.pc # "run"
    /\ Len(applied) < MaxCalls
    /\ KEnter(p, "cell")

CellKTime(p) ==
    /\ loop.pc # "run"
    /\ Len(applied) < MaxCalls
    /\ TEnter(p, "cell")

\* sigma = lambda x: x for the EGM operator, sigma = grid for the other
StartPolicy(op) == IF op = "egm" THEN 1 ELSE 3

\* K(sigma) and K_time(sigma) as the arrays they fill, the first n entries
RECURSIVE FilledC(_, _, _)
FilledC(h, sigma, n) ==
    IF n = 0 THEN <<>>
    ELSE Append(FilledC(h, sigma, n - 1), Consumption(h, sigma, h[og.grid][n]))

RECURSIVE FilledRoots(_, _, _)
FilledRoots(h, sigma, n) ==
    IF n = 0 THEN <<>>
    ELSE Append(FilledRoots(h, sigma, n - 1), brentq(h, sigma, h[og.grid][n]))

RECURSIVE Xs(_, _)
Xs(r, n) == IF n = 0 THEN <<>> ELSE Append(Xs(r, n - 1), r[n].x)

RECURSIVE Summed(_, _, _)
Summed(g, c, n) ==
    IF n = 0 THEN <<>> ELSE Append(Summed(g, c, n - 1), Add(g[n], c[n]))

\* The policies the loop will hand to the operator all fit.
RECURSIVE Iterable(_, _, _, _)
IterableTime(h, op, r, n) ==
    IF \E i \in 1..Len(r) : r[i].raised THEN TRUE
    ELSE Iterable(Append(h, Xs(r, Len(r))), op, Vector(Len(h) + 1), n - 1)
IterableEgm(h, op, c, n) ==
    Iterable(h \o <<c, Summed(h[og.grid], c, Len(c))>>, op,
             Interp(Len(h) + 2, Len(h) + 1), n - 1)
Iterable(h, op, sigma, n) ==
    IF n = 0 THEN TRUE
    ELSE IF ~Fits(h, sigma) THEN FALSE
    ELSE IF n = 1 THEN op = "time" => Linear
    ELSE IF op = "egm"
    THEN IterableEgm(h, op, FilledC(h, sigma, Len(h[og.grid])), n)
    ELSE IF ~Linear THEN FALSE
    ELSE IterableTime(h, op, FilledRoots(h, h[sigma.v], Len(h[og.grid])), n)

\* sigma = initial policy; the loop is about to run n times
LoopStart(op, n) ==
    /\ og.built
    /\ Idle
    /\ loop.pc = "off"
    /\ Len(applied) + n <= MaxCalls
    /\ Iterable(heap, op, pols[StartPolicy(op)], n)
    /\ loop' = [pc |-> "run", op |-> op, n |-> n, i |-> 0,
                sigma |-> StartPolicy(op)]
    /\ UNCHANGED <<og, heap, pols, applied, ev, brentqCalls, call,
                   kvars, tvars>>

\* for i in range(n): sigma = K(sigma)
LoopCall ==
    /\ loop.pc = "run"
    /\ loop.i < loop.n
    /\ IF loop.op = "egm" THEN KEnter(loop.sigma, "loop")
       ELSE TEnter(loop.sigma, "loop")

\* The loop left as soon as one application has been made.
LoopExitEarly ==
    /\ loop.pc = "run"
    /\ Idle
    /\ loop.i >= 1
    /\ loop' = [loop EXCEPT !.pc = "done"]
    /\ UNCHANGED <<og, heap, pols, applied, ev, brentqCalls, call,
                   kvars, tvars>>

\* range(n) is exhausted
LoopExit ==
    /\ loop.pc = "run"
    /\ Idle
    /\ loop.i = loop.n
    /\ loop' = [loop EXCEPT !.pc = "done"]
    /\ UNCHANGED <<og, heap, pols, applied, ev, brentqCalls, call,
                   kvars, tvars>>

(***************************************************************************)
(* The caller evaluates a policy K returned at an income: sigma(x), as in  *)
(* K(c_star)(grid) and sigma(grid).                                        *)
(***************************************************************************)
\* The incomes a policy is evaluated at: the grid points, and one beyond.
Incomes ==
    IF og.built
    THEN {grid[i] : i \in 1..Len(grid)} \cup {Num(1, 1, -3)}
    ELSE {}

Evaluate(p, u) ==
    /\ og.built
    /\ Idle
    /\ loop.pc # "run"
    /\ ~ev.done
    /\ pols[p].kind = "interp"
    /\ Fits(heap, pols[p])
    /\ ev' = [done |-> TRUE, pol |-> p, x |-> u, val |-> Eval(heap, pols[p], u)]
    /\ UNCHANGED <<og, heap, pols, applied, brentqCalls, call,
                   kvars, tvars, loop>>

Workers == 1..Len(twork)

\* A computation under way takes its next step.
Running ==
    \/ LoopCall
    \/ LoopExit
    \/ KLoop
    \/ KGrid
    \/ KReturn
    \/ \E i \in Workers : TIter(i)
    \/ TReturn
    \/ TRaise

Next ==
    \/ Construct
    \/ \E p \in 1..Len(pols) : CellK(p)
    \/ \E p \in 1..Len(pols) : CellKTime(p)
    \/ \E op \in {"egm", "time"}, n \in 1..MaxCalls : LoopStart(op, n)
    \/ \E p \in 1..Len(pols), u \in Incomes : Evaluate(p, u)
    \/ Running

Spec == Init /\ [][Next]_vars

(***************************************************************************)
(* Properties                                                              *)
(***************************************************************************)
\* sigma(x) for a policy given by its contents
EvalOf(sigma, u) ==
    IF sigma.kind = "closed" THEN Add(sigma.b, Mul(sigma.a, u))
    ELSE interp(sigma.y, sigma.c, u)

EgmRuns == {n \in 1..Len(applied) : applied[n].op = "egm"}

StrictlyIncreasing(a) == \A i \in 1..(Len(a) - 1) : Lt(a[i], a[i + 1])

\* The sum over the first n shocks of u'(sigma(f(k) z)) f'(k) z
RECURSIVE MarginalSum(_, _, _)
MarginalSum(sigma, k, n) ==
    IF n = 0 THEN Zero
    ELSE Add(MarginalSum(sigma, k, n - 1),
             Mul(u_prime(og, EvalOf(sigma, Mul(f(og, k), shocks[n]))),
                 Mul(f_prime(og, k), shocks[n])))

\* C1: a completed application of K to sigma returned the pairs, in grid
\* order, c_i = u_prime_inv(beta * mean_j u'(sigma(f(k_i) z_j)) f'(k_i) z_j)
\* and y_i = k_i + c_i, and called the root-finder not once.
C1_OperatorFormula ==
    \A n \in EgmRuns :
        LET r == applied[n]
        IN  /\ r.out.kind = "interp"
            /\ Len(r.out.c) = Len(grid)
            /\ Len(r.out.y) = Len(grid)
            /\ \A i \in 1..Len(grid) :
                /\ r.out.c[i] =
                     u_prime_inv(og,
                        Mul(og.beta,
                            Div(MarginalSum(r.in, grid[i], Len(shocks)),
                                Whole(Len(shocks)))))
                /\ r.out.y[i] = Add(grid[i], r.out.c[i])
            /\ r.roots = 0

C1_Witness ==
    \E n \in EgmRuns :
        /\ Len(grid) >= 2
        /\ Len(shocks) >= 2
        /\ shocks[1] # shocks[2]
        /\ applied[n].in.kind = "interp"
        /\ \A i \in 1..Len(grid) : ~IsNaN(applied[n].out.c[i])

\* A policy is strictly increasing: a closed form of positive slope, or an
\* interpolant whose incomes and consumptions both strictly increase.
IncreasingPolicy(sigma) ==
    IF sigma.kind = "closed" THEN Sign(sigma.a) > 0
    ELSE /\ Len(sigma.y) >= 2
         /\ StrictlyIncreasing(sigma.y)
         /\ StrictlyIncreasing(sigma.c)

\* Every marginal utility u'(sigma(f(k_i) z_j)) the application evaluates is
\* positive.
PositiveMarginals(sigma) ==
    \A i \in 1..Len(grid) : \A j \in 1..Len(shocks) :
        Sign(u_prime(og, EvalOf(sigma, Mul(f(og, grid[i]), shocks[j])))) > 0

\* f is concave: alpha <= 1
ConcaveProduction == og.alpha[1] <= og.alpha[2]

\* The configuration is one the construction interface is said to admit.
Admitted ==
    /\ Lt(Zero, og.beta)
    /\ Lt(og.beta, One)
    /\ og.grid_size >= 2
    /\ og.shock_size >= 1

\* C2 as stated, of the models of an admitted configuration: whenever the
\* input policy is strictly increasing (f increasing, u' strictly decreasing
\* and u_prime_inv its inverse hold of every model here), the endogenous
\* grid of the returned policy is strictly increasing in the grid index.
C2_Original ==
    \A n \in EgmRuns :
        (Admitted /\ IncreasingPolicy(applied[n].in))
            => StrictlyIncreasing(applied[n].out.y)

\* C2 amended: the endogenous grid is strictly increasing when, besides,
\* the capital grid is strictly increasing (grid_max above 1e-5), f is
\* concave (f' positive and non-increasing), the discount factor is
\* positive, the shock sample is not empty and every marginal utility the
\* application evaluates is positive.
C2_MonotoneGrid ==
    \A n \in EgmRuns :
        ( /\ IncreasingPolicy(applied[n].in)
          /\ StrictlyIncreasing(grid)
          /\ ConcaveProduction
          /\ Sign(og.beta) > 0
          /\ Len(shocks) >= 1
          /\ PositiveMarginals(applied[n].in) )
        => StrictlyIncreasing(applied[n].out.y)

C2_Witness ==
    \E n \in EgmRuns :
        /\ IncreasingPolicy(applied[n].in)
        /\ StrictlyIncreasing(grid)
        /\ applied[n].in.kind = "interp"
        /\ ConcaveProduction
        /\ Len(shocks) >= 2
        /\ PositiveMarginals(applied[n].in)
        /\ Len(grid) >= 3
        /\ StrictlyIncreasing(applied[n].out.y)

\* C3: two applications of the same operator of one model instance to the
\* same policy return the same policy, wherever in the sequence of
\* applications they occur.
C3_Deterministic ==
    \A n1, n2 \in 1..Len(applied) :
        (applied[n1].op = applied[n2].op /\ applied[n1].in = applied[n2].in)
        => applied[n1].out = applied[n2].out

C3_Witness ==
    \E n1, n2 \in EgmRuns :
        /\ n1 < n2
        /\ applied[n1].in = applied[n2].in
        /\ Len(shocks) >= 2
        /\ Len(grid) >= 2
        /\ \A i \in 1..Len(grid) : ~IsNaN(applied[n1].out.c[i])

\* sigma*(y) = (1 - alpha beta) y
SigmaStar(y) == Mul(Sub(One, Mul(AlphaNum(og.alpha), og.beta)), y)

FixedPointRun(n) ==
    /\ n \in EgmRuns
    /\ og.u = "log"
    /\ og.A = One
    /\ Len(grid) >= 2
    /\ Len(shocks) >= 1
    /\ applied[n].in = Closed(Zero, Sub(One, Mul(AlphaNum(og.alpha), og.beta)))

Tolerance == Num(1, 1, -6)

\* C4: in the log / Cobb-Douglas model, K applied to sigma* returns a policy
\* that deviates from sigma* by less than 1e-6 at every point of the grid.
C4_FixedPoint ==
    \A n \in 1..Len(applied) :
        FixedPointRun(n) =>
            \A i \in 1..Len(grid) :
                Lt(AbsNum(Sub(EvalOf(applied[n].out, grid[i]), SigmaStar(grid[i]))),
                   Tolerance)

C4_Witness ==
    \E n \in 1..Len(applied) :
        /\ FixedPointRun(n)
        /\ og.alpha = <<2, 5>>
        /\ og.beta = Num(1, 2, 0)
        /\ Len(shocks) = 2
        /\ shocks[1] # shocks[2]

\* The policy the last evaluation was made of, by its sample arrays
Evaluated == Contents(heap, pols[ev.pol])

\* The endogenous grid points of an interpolated policy: y_i = k_i + c_i
SampleIncome(sigma, i) == Add(grid[i], sigma.c[i])

\* The line through the samples i and i + 1 of the policy, taken at x
Segment(sigma, i, x) ==
    Add(sigma.c[i],
        Div(Mul(Sub(x, SampleIncome(sigma, i)),
                Sub(sigma.c[i + 1], sigma.c[i])),
            Sub(SampleIncome(sigma, i + 1), SampleIncome(sigma, i))))

\* An evaluation was made of a policy K returned, of two samples or more
\* with strictly increasing incomes.
EvaluatedReturned ==
    /\ ev.done
    /\ Evaluated.kind = "interp"
    /\ Len(Evaluated.c) >= 2
    /\ \A i \in 1..(Len(grid) - 1) :
          Lt(SampleIncome(Evaluated, i), SampleIncome(Evaluated, i + 1))

C6_Validated ==
    og.built =>
        /\ Lt(Zero, og.beta)
        /\ Lt(og.beta, One)
        /\ og.grid_size >= 2
        /\ og.shock_size >= 1

\* C7 as stated, of the models of an admitted configuration: no policy K
\* returned holds a negative consumption sample.
C7_NoNegativeSample ==
    \A n \in EgmRuns :
        Admitted =>
            \A i \in 1..Len(applied[n].out.c) :
                Sign(applied[n].out.c[i]) >= 0

\* The arrays that are not to change: the model's, and those of the policies
\* that have been returned.
Frozen ==
    IF og.built
    THEN {og.grid, og.shocks}
            \cup {pols[p].y : p \in {q \in 1..Len(pols) : pols[q].kind = "interp"}}
            \cup {pols[p].c : p \in {q \in 1..Len(pols) : pols[q].kind = "interp"}}
    ELSE {}

\* No returned policy shares a sample array with the model, with another
\* policy or between its own y and c.
Unshared ==
    \A p \in 1..Len(pols) :
        pols[p].kind = "interp" =>
            /\ pols[p].y # pols[p].c
            /\ {pols[p].y, pols[p].c} \cap {og.grid, og.shocks} = {}
            /\ \A q \in 1..Len(pols) :
                  (q # p /\ pols[q].kind = "interp") =>
                      {pols[p].y, pols[p].c} \cap {pols[q].y, pols[q].c} = {}

\* C9: no step changes the model, its grid and shock arrays, a policy that
\* exists or a sample array of a returned policy, and the arrays of each
\* returned policy are its own.
C9_Pure ==
    [][ /\ og.built => og' = og
        /\ \A a \in Frozen : heap'[a] = heap[a]
        /\ \A p \in 1..Len(pols) : pols'[p] = pols[p]
        /\ Unshared' ]_vars

\* Two policies have been returned, the second computed from the first
C9_Witness ==
    /\ Len(applied) >= 2
    /\ applied[2].in = applied[1].out
    /\ Len(grid) >= 2

\* The value of a policy at the i-th grid point
OnGrid(sigma, i) ==
    IF sigma.kind = "vector" THEN sigma.v[i] ELSE EvalOf(sigma, grid[i])

LoopTolerance == Num(1, 1, -4)

\* An application changed the policy by less than the tolerance at every
\* grid point.
Converged(r) ==
    /\ r.out.kind # "raised"
    /\ \A i \in 1..Len(grid) :
          Lt(AbsNum(Sub(OnGrid(r.out, i), OnGrid(r.in, i))), LoopTolerance)

Finished == loop.pc \in {"done", "raised"}

\* C8 as stated: the loop begins no further application once the last one
\* changed the policy by less than the tolerance.
C8_StopsAtTolerance ==
    [][ (loop.pc = "run" /\ loop.i >= 1 /\ Idle /\ ~Idle')
            => ~Converged(applied[Len(applied)]) ]_vars

\* What a step may do to the loop: n and the operator stay, the count goes up
\* by one with each application, the current policy is then the operator
\* applied to the one before, and the loop is left only with n applications
\* made or by an exception.
LoopStep ==
    /\ loop.pc = "run" =>
          /\ loop'.n = loop.n
          /\ loop'.op = loop.op
          /\ loop'.i \in {loop.i, loop.i + 1}
          /\ loop'.i = loop.i => loop'.sigma = loop.sigma
    /\ (loop.pc = "run" /\ loop'.i = loop.i + 1) =>
          /\ Len(applied') = Len(applied) + 1
          /\ applied'[Len(applied')].op = loop.op
          /\ applied'[Len(applied')].in = Contents(heap, pols[loop.sigma])
          /\ applied'[Len(applied')].out = Contents(heap', pols'[loop'.sigma])
    /\ (loop.pc = "run" /\ loop'.pc = "done") => loop.i = loop.n
    /\ Finished => loop' = loop

\* The steps one application takes at most: entry, one per grid point, the
\* endogenous grid, the return
Cost == Len(grid) + 3

\* The steps the application under way has taken
Progress ==
    IF kpc = "loop" THEN ki
    ELSE IF kpc = "grid" THEN Len(grid) + 2
    ELSE IF tpc = "prange"
    THEN 1 + Cardinality({i \in 1..Len(twork) : twork[i] # "todo"})
    ELSE 0

\* A bound on the steps the loop has yet to take
Remaining ==
    IF loop.pc = "run"
    THEN 1 + (loop.n - loop.i) * Cost - Progress
    ELSE 0

\* The running loop has a step to take: the guard of LoopCall or LoopExit
\* between applications, of KLoop, KGrid or KReturn within K, of TIter,
\* TReturn or TRaise within the prange.
Pending ==
    IF kpc = "loop" THEN ki <= Len(grid) + 1
    ELSE IF kpc = "grid" THEN TRUE
    ELSE IF tpc = "prange"
    THEN \/ \E i \in 1..Len(twork) : twork[i] \in {"todo", "raised"}
         \/ \A i \in 1..Len(twork) : twork[i] = "stored"
    ELSE IF loop.i = loop.n THEN TRUE
    ELSE /\ loop.i < loop.n
         /\ og.built
         /\ Fits(heap, pols[loop.sigma])
         /\ IF loop.op = "egm" THEN pols[loop.sigma].kind # "vector"
            ELSE pols[loop.sigma].kind = "vector" /\ Linear

\* C8 amended: the loop applies the operator n times, whatever the change
\* between successive policies, unless an exception leaves it; it comes to
\* an end, for while it runs it has a step to take and every step brings a
\* bound on the steps that remain down; it holds one current policy, the
\* operator applied to the one before.
C8_Loop ==
    /\ [](loop.i <= loop.n)
    /\ [][LoopStep]_vars
    /\ [](loop.pc = "run" => Pending /\ Remaining > 0)
    /\ [][loop.pc = "run" => Remaining' < Remaining]_vars

\* A loop of two applications ran to its end though the first one had
\* changed the policy by less than the tolerance.
C8_Witness ==
    /\ loop.pc = "done"
    /\ loop.n >= 2
    /\ loop.i = loop.n
    /\ Len(applied) = loop.n
    /\ Converged(applied[1])
    /\ Len(grid) >= 2

\* C10: in the parallel time operator an iteration of the prange changes
\* nothing but its own slot of sigma_new, which it writes once with the
\* root the sequential loop finds there; the model, the grid, the shocks and
\* the input vector stay as they are; and the vector is returned with every
\* slot written, after one root-finding per grid point.
C10_Parallel ==
    [][ tpc = "prange" =>
          /\ og' = og
          /\ \A a \in {og.grid, og.shocks, tsigma} : heap'[a] = heap[a]
          /\ \A i \in Workers :
                twork'[i] # twork[i] =>
                    /\ twork[i] = "todo"
                    /\ \A j \in Workers \ {i} :
                          /\ twork'[j] = twork[j]
                          /\ heap'[tnew][j] = heap[tnew][j]
                          /\ twrites'[j] = twrites[j]
                    /\ twork'[i] = "stored" =>
                          /\ twrites'[i] = 1
                          /\ heap'[tnew][i] =
                                brentq(heap, heap[tsigma], grid[i]).x
          /\ Len(pols') > Len(pols) =>
                /\ \A i \in Workers : twork[i] = "stored" /\ twrites[i] = 1
                /\ pols'[Len(pols')] = Vector(tnew)
                /\ applied'[Len(applied')].out.v = heap[tnew]
                /\ applied'[Len(applied')].roots = Len(grid) ]_vars

\* The third iteration is over before the first has begun, in an
\* application of the time operator to a vector that an earlier one returned.
C10_Witness ==
    /\ tpc = "prange"
    /\ Len(twork) = 3
    /\ twork[3] = "stored"
    /\ twork[1] = "todo"
    /\ pols[Len(pols)].kind = "vector"
    /\ tsigma = pols[Len(pols)].v
    /\ tsigma # og.grid

TimeRuns == {n \in 1..Len(applied) : applied[n].op = "time"}

\* The bracket brentq is given at the income y has its lower end below its
\* upper end: 1e-10 < y - 1e-10
BracketOpen(y) == Lt(BracketEnd, Sub(y, BracketEnd))

\* Wherever the grid point is positive and u_prime_inv returned a positive
\* number, the sample K returned lies in (0, y_i).
EgmWithinIncome ==
    \A n \in EgmRuns :
        \A i \in 1..Len(grid) :
            (Lt(Zero, grid[i]) /\ Sign(applied[n].out.c[i]) > 0) =>
                /\ Lt(Zero, applied[n].out.c[i])
                /\ Lt(applied[n].out.c[i], applied[n].out.y[i])

\* C11 as stated, of the models of an admitted configuration: the samples
\* of the EGM operator lie in (0, y_i) (for a positive u_prime_inv and grid
\* point), those the time operator returned lie in (0, grid[i]), and the
\* bracket of the root-finder has its lower end below its upper end at
\* every grid point.
C11_Original ==
    (og.built /\ Admitted) =>
        /\ EgmWithinIncome
        /\ \A n \in TimeRuns :
              /\ \A i \in 1..Len(grid) : BracketOpen(grid[i])
              /\ applied[n].out.kind = "vector" =>
                    \A i \in 1..Len(grid) :
                        /\ Lt(Zero, applied[n].out.v[i])
                        /\ Lt(applied[n].out.v[i], grid[i])

\* C11 amended: the samples of the EGM operator lie in (0, y_i) wherever
\* the grid point is positive and u_prime_inv returned a positive number;
\* the bracket of the root-finder is non-empty at the grid points above
\* 2e-10, which is every grid point when grid_max is above 2e-10; and at
\* such a grid point a sample the time operator returned, when it is a
\* number, lies within the bracket, so strictly between 0 and grid[i].
C11_WithinIncome ==
    /\ EgmWithinIncome
    /\ og.built =>
          /\ \A i \in 1..Len(grid) :
                BracketOpen(grid[i]) <=> Lt(Num(2, 1, -10), grid[i])
          /\ Lt(Num(2, 1, -10), og.grid_max) =>
                \A i \in 1..Len(grid) : BracketOpen(grid[i])
    /\ \A n \in TimeRuns :
          applied[n].out.kind = "vector" =>
              \A i \in 1..Len(grid) :
                  (BracketOpen(grid[i]) /\ ~IsNaN(applied[n].out.v[i])) =>
                      /\ Le(BracketEnd, applied[n].out.v[i])
                      /\ Le(applied[n].out.v[i], Sub(grid[i], BracketEnd))
                      /\ Lt(Zero, applied[n].out.v[i])
                      /\ Lt(applied[n].out.v[i], grid[i])

\* Both operators have been applied on a grid of three points: K returned
\* positive samples and the time operator a vector of roots.
C11_Witness ==
    /\ og.built
    /\ Len(grid) = 3
    /\ \A i \in 1..Len(grid) : BracketOpen(grid[i])
    /\ \E n \in EgmRuns :
          \A i \in 1..Len(grid) : Sign(applied[n].out.c[i]) > 0
    /\ \E n \in TimeRuns :
          /\ applied[n].out.kind = "vector"
          /\ \A i \in 1..Len(grid) : Lt(Zero, applied[n].out.v[i])
====
